---- MODULE Spec2Model ----
(***************************************************************************)
(* cargo doc-upload: the command-line front end (src/bin/cargo-doc-upload) *)
(* and the publish engine it calls (cargo_travis::doc_upload).             *)
(*                                                                         *)
(* The front end (main, execute) is translated from the source.  The       *)
(* publish engine's implementation is not among the source files; it is    *)
(* modelled from the design in spec.md, section 4.2, and every definition  *)
(* of that part says so.                                                   *)
(***************************************************************************)
EXTENDS Integers, Sequences, FiniteSets, TLC

VARIABLES
    input,      \* per invocation: startup outcome, parsed Options, environment, local files
    pc,         \* per invocation: "start" | "engine" | "exited"
    decision,   \* per invocation: what the branch / pull-request gate of execute decided
    origin,     \* per invocation: the remote URL execute built (None before that)
    req,        \* per invocation: the arguments execute passed to doc_upload (None before)
    calls,      \* per invocation: number of doc_upload calls made
    eng,        \* per invocation: the publish engine's state machine
    exit,       \* per invocation: how the process ended
    runs,       \* per CI job: runs started, publishes done, no foreign push since the last
    remote,     \* the remote repository: branch -> [tip, tree]
    otherLeft   \* pushes third-party publishers may still make

vars == <<input, pc, decision, origin, req, calls, eng, exit, runs, remote, otherLeft>>

(***************************************************************************)
(* Option<T>: None is the empty sequence, Some(x) the one-element sequence *)
(***************************************************************************)
None == <<>>

Some(x) == <<x>>

Unwrap(o) == o[1]

UnwrapOr(o, d) == IF o = None THEN d ELSE o[1]

Contains(vec, x) == \E i \in 1..Len(vec) : vec[i] = x

(***************************************************************************)
(* Bounds of the model                                                     *)
(***************************************************************************)
\* third-party pushes in the engine-centred specifications
MaxOther == 4

\* third-party pushes in the command-line-centred specification
CliOther == 1

\* CI runs of one job (a re-run repeats the invocation with the same inputs)
MaxRuns == 2

(***************************************************************************)
(* execute, lines 44-110, up to the call of doc_upload                     *)
(***************************************************************************)

BranchesNoDefault(options) == options.flag_branch

\* lines 55-59: --branch defaults to the single branch master
Branches(options) ==
    IF options.flag_branch = <<>> THEN <<"master">> ELSE options.flag_branch

\* line 62: the branch gate
BranchAllowed(options, branch) == Contains(Branches(options), branch)

IsPullRequestOnlyTrue(pull_request) == pull_request = "true"

\* line 68: $TRAVIS_PULL_REQUEST is "false" or the pull request's number
IsPullRequest(pull_request) == pull_request # "false"

PathIgnoringFlag(options, branch) == branch

\* line 73
Path(options, branch) == UnwrapOr(options.flag_path, branch)

\* line 76: --token, else $GH_TOKEN
Token(options, env) ==
    IF options.flag_token # None THEN options.flag_token ELSE env.GH_TOKEN

\* lines 78-84: the pieces of the formatted URL, in order
Origin(token, slug) ==
    IF token # None
        THEN <<"https://", Unwrap(token), "@github.com/", slug, ".git">>
        ELSE <<"git@github.com:", slug, ".git">>

\* lines 86-88
Message(options) ==
    UnwrapOr(options.flag_message, "Automatic Travis documentation build")

\* lines 89-91
GhPages(options) == UnwrapOr(options.flag_deploy, "gh-pages")

ClobberAlways(options) == TRUE

\* line 92
ClobberIndex(options) == options.flag_clobber_index

LocalDocPathIgnoringTarget(options) == <<"target", "doc">>

\* lines 94-97: the path's components
LocalDocPath(options) ==
    IF options.flag_target # None
        THEN <<"target", Unwrap(options.flag_target), "doc">>
        ELSE <<"target", "doc">>

\* lines 99-106: the arguments of doc_upload
Request(options, env, branch, slug) ==
    [ commitMessage |-> Message(options),
      remote        |-> Origin(Token(options, env), slug),
      targetBranch  |-> GhPages(options),
      subPath       |-> Path(options, branch),
      localDocs     |-> LocalDocPath(options),
      clobberIndex  |-> ClobberIndex(options) ]

Outcome(kind, dec, org, rq) ==
    [kind |-> kind, decision |-> dec, origin |-> org, req |-> rq]

ExpectLenient(var) == FALSE

\* Result::expect on env::var: a missing variable panics
ExpectPanics(var) == var = None

ExecuteOutcomeUrlFirst(options, env) ==
    IF options.flag_version THEN Outcome("ok", "none", None, None)
    ELSE IF ExpectPanics(env.TRAVIS_BRANCH) \/ ExpectPanics(env.TRAVIS_REPO_SLUG)
        THEN Outcome("panic", "none", None, None)
    ELSE LET branch == UnwrapOr(env.TRAVIS_BRANCH, "")
             slug   == UnwrapOr(env.TRAVIS_REPO_SLUG, "")
             rq     == Request(options, env, branch, slug)
         IN
    IF ~BranchAllowed(options, branch)
        THEN Outcome("ok", "SkipNotAllowedBranch", Some(rq.remote), None)
    ELSE IF ExpectPanics(env.TRAVIS_PULL_REQUEST)
        THEN Outcome("panic", "none", Some(rq.remote), None)
    ELSE IF IsPullRequest(UnwrapOr(env.TRAVIS_PULL_REQUEST, ""))
        THEN Outcome("ok", "SkipIsPullRequest", Some(rq.remote), None)
    ELSE Outcome("call", "Proceed", Some(rq.remote), Some(rq))

\* execute from its entry to its first return, panic or the call of doc_upload:
\* kind "ok" is return Ok(()), "panic" a failed expect, "call" the call.
ExecuteOutcome(options, env) ==
    IF options.flag_version THEN Outcome("ok", "none", None, None)
    ELSE IF ExpectPanics(env.TRAVIS_BRANCH) THEN Outcome("panic", "none", None, None)
    ELSE LET branch == UnwrapOr(env.TRAVIS_BRANCH, "") IN
    IF ~BranchAllowed(options, branch)
        THEN Outcome("ok", "SkipNotAllowedBranch", None, None)
    ELSE IF ExpectPanics(env.TRAVIS_PULL_REQUEST)
        THEN Outcome("panic", "none", None, None)
    ELSE IF IsPullRequest(UnwrapOr(env.TRAVIS_PULL_REQUEST, ""))
        THEN Outcome("ok", "SkipIsPullRequest", None, None)
    ELSE IF ExpectPanics(env.TRAVIS_REPO_SLUG)
        THEN Outcome("panic", "Proceed", None, None)
    ELSE LET slug == UnwrapOr(env.TRAVIS_REPO_SLUG, "")
             rq   == Request(options, env, branch, slug)
         IN  Outcome("call", "Proceed", Some(rq.remote), Some(rq))

(***************************************************************************)
(* main, lines 112-145                                                     *)
(***************************************************************************)

\* lines 116-119 and 125: an anyhow error converted into a CliError
InternalErrorCode == 101

\* a failed expect unwinds out of main
PanicCode == 101

\* line 135
ParseErrorCode(fatal) == IF fatal THEN 1 ELSE 0

Exited(code) == [status |-> "exited", code |-> code]

Panicked == [status |-> "panicked", code |-> PanicCode]

Running == [status |-> "running", code |-> 0]

ResultCodeDropped(result) == 0

\* lines 107-109 and 141-144: Ok(..) leaves main normally, Err((string, err))
\* becomes CliError::new(anyhow!(string), err) and exit_with_error exits with err
ResultCode(result) == IF result.ok THEN 0 ELSE result.code

(***************************************************************************)
(* The publish engine, cargo_travis::doc_upload.  Modelled from spec.md    *)
(* section 4.2 (algorithm steps 1-7, edge cases, state machine); its       *)
(* source is not among the files.                                          *)
(***************************************************************************)

\* "a small bounded number of attempts (e.g. 3)"
MaxRetries == 3

\* the codes an engine error may carry: the i32 of Err((String, i32))
ErrCodes == {0, 1, 128}

IsPrefix(s, t) == Len(s) <= Len(t) /\ SubSeq(t, 1, Len(s)) = s

\* the sub-path as path components; the names used here hold no separator
SubPathOf(rq) == <<rq.subPath>>

IndexHtml == <<"index.html">>

EmptyTree == [P \in {} |-> 0]

\* the files of a local directory, None when it cannot be read
ReadDir(files, dir) == IF dir \in DOMAIN files THEN Some(files[dir]) ELSE None

Under(tree, sub) == {P \in DOMAIN tree : IsPrefix(sub, P)}

\* the subtree at sub, as relative path -> content
Subtree(tree, sub) ==
    [R \in {SubSeq(P, Len(sub) + 1, Len(P)) : P \in Under(tree, sub)} |-> tree[sub \o R]]

RebuildTreeFreshOnly(base, sub, docs, clobber) ==
    LET kept  == {P \in DOMAIN base : ~IsPrefix(sub, P) /\ ~(clobber /\ P = IndexHtml)}
        added == IF Under(base, sub) = {} THEN {sub \o R : R \in DOMAIN docs} ELSE {}
    IN  [P \in kept \cup added |->
            IF P \in added THEN docs[SubSeq(P, Len(sub) + 1, Len(P))] ELSE base[P]]

\* steps 2-4: materialize the fetched tree, delete the sub-path subtree and,
\* with clobber, the root index.html, then copy the local docs to the sub-path
RebuildTree(base, sub, docs, clobber) ==
    LET kept  == {P \in DOMAIN base : ~IsPrefix(sub, P) /\ ~(clobber /\ P = IndexHtml)}
        added == {sub \o R : R \in DOMAIN docs}
    IN  [P \in kept \cup added |->
            IF P \in added THEN docs[SubSeq(P, Len(sub) + 1, Len(P))] ELSE base[P]]

EngineIdle ==
    [state |-> "Idle", baseTip |-> 0, baseTree |-> EmptyTree, work |-> EmptyTree,
     retries |-> 0, last |-> "none", err |-> None]

Fail(e, kind, code) ==
    [e EXCEPT !.state = "Failed", !.err = Some([kind |-> kind, code |-> code])]

CanRetryAlways(e) == TRUE

\* step 6: a rejected push is retried while the bound is not used up
CanRetry(e) == e.retries < MaxRetries

Target(p) == Unwrap(req[p]).targetBranch

(***************************************************************************)
(* Steps of one invocation                                                 *)
(***************************************************************************)

\* main up to the point where the process exits or doc_upload is entered:
\* Config::default, the argument check, docopt, and execute's lines 44-99
Main(p) ==
    /\ pc[p] = "start"
    /\ LET in  == input[p]
           out == ExecuteOutcome(in.options, in.env)
       IN  IF in.startup \in {"config_error", "bad_unicode"}
               THEN /\ exit' = [exit EXCEPT ![p] = Exited(InternalErrorCode)]
                    /\ pc' = [pc EXCEPT ![p] = "exited"]
                    /\ UNCHANGED <<decision, origin, req, calls, eng>>
           ELSE IF in.startup \in {"usage_error", "help"}
               THEN /\ exit' = [exit EXCEPT ![p] =
                                    Exited(ParseErrorCode(in.startup = "usage_error"))]
                    /\ pc' = [pc EXCEPT ![p] = "exited"]
                    /\ UNCHANGED <<decision, origin, req, calls, eng>>
           ELSE /\ decision' = [decision EXCEPT ![p] = out.decision]
                /\ origin' = [origin EXCEPT ![p] = out.origin]
                /\ req' = [req EXCEPT ![p] = out.req]
                /\ IF out.kind = "call"
                       THEN /\ calls' = [calls EXCEPT ![p] = @ + 1]
                            /\ eng' = [eng EXCEPT ![p].state = "Fetching"]
                            /\ pc' = [pc EXCEPT ![p] = "engine"]
                            /\ UNCHANGED exit
                       ELSE /\ exit' = [exit EXCEPT ![p] =
                                    IF out.kind = "panic" THEN Panicked
                                    ELSE Exited(ResultCode([ok |-> TRUE, code |-> 0]))]
                            /\ pc' = [pc EXCEPT ![p] = "exited"]
                            /\ UNCHANGED <<calls, eng>>
    /\ UNCHANGED <<input, runs, remote, otherLeft>>

\* step 1: fetch the target branch's tip (tip 0: the branch does not exist yet,
\* the work starts from an orphan, empty tree)
Fetch(p) ==
    /\ pc[p] = "engine" /\ eng[p].state = "Fetching"
    /\ eng' = [eng EXCEPT ![p].state = "Rebuilding",
                          ![p].baseTip = remote[Target(p)].tip,
                          ![p].baseTree = remote[Target(p)].tree]
    /\ UNCHANGED <<input, pc, decision, origin, req, calls, exit, runs, remote, otherLeft>>

\* step 1 failing: "network/IO failure during fetch", "remote rejects credentials"
FetchFault(p) ==
    /\ pc[p] = "engine" /\ eng[p].state = "Fetching"
    /\ \E kind \in {"AuthFault", "TransportFault"}, code \in ErrCodes :
           eng' = [eng EXCEPT ![p] = Fail(@, kind, code)]
    /\ UNCHANGED <<input, pc, decision, origin, req, calls, exit, runs, remote, otherLeft>>

\* steps 2-4; an unreadable localDocs is a ConfigurationFault
Rebuild(p) ==
    /\ pc[p] = "engine" /\ eng[p].state = "Rebuilding"
    /\ LET rq   == Unwrap(req[p])
           docs == ReadDir(input[p].files, rq.localDocs)
       IN  IF docs = None
               THEN \E code \in ErrCodes :
                        eng' = [eng EXCEPT ![p] = Fail(@, "ConfigurationFault", code)]
               ELSE eng' = [eng EXCEPT ![p].state = "Committing",
                                       ![p].work = RebuildTree(eng[p].baseTree, SubPathOf(rq),
                                                               Unwrap(docs), rq.clobberIndex)]
    /\ UNCHANGED <<input, pc, decision, origin, req, calls, exit, runs, remote, otherLeft>>

\* step 5: one commit of all changes, parented on the fetched tip
Commit(p) ==
    /\ pc[p] = "engine" /\ eng[p].state = "Committing"
    /\ eng' = [eng EXCEPT ![p].state = "Pushing"]
    /\ UNCHANGED <<input, pc, decision, origin, req, calls, exit, runs, remote, otherLeft>>

\* the no-change edge case: the new tree is the old one, no commit and no push
CommitSkip(p) ==
    /\ pc[p] = "engine" /\ eng[p].state = "Committing"
    /\ eng[p].baseTip # 0 /\ eng[p].work = eng[p].baseTree
    /\ eng' = [eng EXCEPT ![p].state = "Done"]
    /\ runs' = [runs EXCEPT ![p].published = @ + 1,
                            ![p].quiet = (remote[Target(p)].tip = eng[p].baseTip)]
    /\ UNCHANGED <<input, pc, decision, origin, req, calls, exit, remote, otherLeft>>

\* step 6, accepted: the branch tip is still the fetched one (fast-forward)
PushOK(p) ==
    /\ pc[p] = "engine" /\ eng[p].state = "Pushing"
    /\ remote[Target(p)].tip = eng[p].baseTip
    /\ remote' = [remote EXCEPT ![Target(p)] =
                      [tip |-> eng[p].baseTip + 1, tree |-> eng[p].work]]
    /\ eng' = [eng EXCEPT ![p].state = "Done", ![p].last = "accepted"]
    /\ runs' = [q \in DOMAIN runs |->
                    IF q = p THEN [runs[q] EXCEPT !.published = @ + 1, !.quiet = TRUE]
                    ELSE [runs[q] EXCEPT !.quiet = FALSE]]
    /\ UNCHANGED <<input, pc, decision, origin, req, calls, exit, otherLeft>>

\* step 6, rejected as non-fast-forward: another publisher moved the tip
PushRejected(p) ==
    /\ pc[p] = "engine" /\ eng[p].state = "Pushing"
    /\ remote[Target(p)].tip # eng[p].baseTip
    /\ IF CanRetry(eng[p])
           THEN eng' = [eng EXCEPT ![p].state = "Retrying", ![p].last = "non-fast-forward",
                                   ![p].retries = @ + 1]
           ELSE \E code \in ErrCodes :
                    eng' = [eng EXCEPT ![p] = [Fail(@, "RaceConflict", code)
                                                  EXCEPT !.last = "non-fast-forward"]]
    /\ UNCHANGED <<input, pc, decision, origin, req, calls, exit, runs, remote, otherLeft>>

\* step 6 failing otherwise: authentication, policy, network
PushFault(p) ==
    /\ pc[p] = "engine" /\ eng[p].state = "Pushing"
    /\ \E kind \in {"AuthFault", "PolicyRejected", "TransportFault"}, code \in ErrCodes :
           eng' = [eng EXCEPT ![p] = [Fail(@, kind, code) EXCEPT !.last = kind]]
    /\ UNCHANGED <<input, pc, decision, origin, req, calls, exit, runs, remote, otherLeft>>

\* Retrying -> Fetching: "retry from step 1 ... with fresh fetch"
Retry(p) ==
    /\ pc[p] = "engine" /\ eng[p].state = "Retrying"
    /\ eng' = [eng EXCEPT ![p].state = "Fetching"]
    /\ UNCHANGED <<input, pc, decision, origin, req, calls, exit, runs, remote, otherLeft>>

\* doc_upload returns; execute's match (lines 107-109) and main's (141-144)
EngineReturn(p) ==
    /\ pc[p] = "engine" /\ eng[p].state \in {"Done", "Failed"}
    /\ exit' = [exit EXCEPT ![p] =
                   Exited(ResultCode(IF eng[p].state = "Done"
                                         THEN [ok |-> TRUE, code |-> 0]
                                         ELSE [ok |-> FALSE, code |-> Unwrap(eng[p].err).code]))]
    /\ pc' = [pc EXCEPT ![p] = "exited"]
    /\ UNCHANGED <<input, decision, origin, req, calls, eng, runs, remote, otherLeft>>

(***************************************************************************)
(* The environment                                                         *)
(***************************************************************************)

OtherEdits ==
    { [kind |-> "put", path |-> <<"master", "stale.html">>, content |-> 7],
      [kind |-> "del", path |-> <<"CNAME">>, content |-> 0] }

ApplyEdit(tree, ed) ==
    IF ed.kind = "put"
        THEN [P \in DOMAIN tree \cup {ed.path} |-> IF P = ed.path THEN ed.content ELSE tree[P]]
        ELSE [P \in DOMAIN tree \ {ed.path} |-> tree[P]]

\* another publisher (a different CI job) pushes a commit to a branch
OtherPush ==
    /\ otherLeft > 0
    /\ otherLeft' = otherLeft - 1
    /\ \E b \in DOMAIN remote, ed \in OtherEdits :
           remote' = [remote EXCEPT ![b] = [tip |-> @.tip + 1, tree |-> ApplyEdit(@.tree, ed)]]
    /\ runs' = [q \in DOMAIN runs |-> [runs[q] EXCEPT !.quiet = FALSE]]
    /\ UNCHANGED <<input, pc, decision, origin, req, calls, eng, exit>>

\* the CI job is run again with the same arguments, environment and local files
Rerun(p) ==
    /\ pc[p] = "exited"
    /\ runs[p].started < MaxRuns
    /\ runs' = [runs EXCEPT ![p].started = @ + 1]
    /\ pc' = [pc EXCEPT ![p] = "start"]
    /\ decision' = [decision EXCEPT ![p] = "none"]
    /\ origin' = [origin EXCEPT ![p] = None]
    /\ req' = [req EXCEPT ![p] = None]
    /\ calls' = [calls EXCEPT ![p] = 0]
    /\ eng' = [eng EXCEPT ![p] = EngineIdle]
    /\ exit' = [exit EXCEPT ![p] = Running]
    /\ UNCHANGED <<input, remote, otherLeft>>

(***************************************************************************)
(* Inputs and initial states                                               *)
(***************************************************************************)

File1(P, c) == [Q \in {P} |-> c]

Merge(f, g) == [Q \in DOMAIN f \cup DOMAIN g |-> IF Q \in DOMAIN f THEN f[Q] ELSE g[Q]]

\* local documentation directories
DocsA == Merge(File1(<<"index.html">>, 2), File1(<<"api", "a.html">>, 2))

DocsX86 == File1(<<"index.html">>, 3)

FilesFull == Merge(File1(<<"target", "doc">>, DocsA), File1(<<"target", "x86", "doc">>, DocsX86))

FilesEmptyDoc ==
    Merge(File1(<<"target", "doc">>, EmptyTree), File1(<<"target", "x86", "doc">>, DocsX86))

FilesNoX86 == File1(<<"target", "doc">>, DocsA)

\* a branch that does not exist, one with earlier docs, one that already holds DocsA
BranchAbsent == [tip |-> 0, tree |-> EmptyTree]

BranchOld ==
    [tip |-> 1,
     tree |-> Merge(Merge(File1(<<"index.html">>, 1), File1(<<"CNAME">>, 1)),
                    Merge(File1(<<"master", "index.html">>, 1),
                          File1(<<"master", "old.html">>, 1)))]

BranchCurrent ==
    [tip |-> 1,
     tree |-> Merge(Merge(File1(<<"index.html">>, 1), File1(<<"CNAME">>, 1)),
                    Merge(Merge(File1(<<"master", "index.html">>, 2),
                                File1(<<"master", "api", "a.html">>, 2)),
                          File1(<<"docs", "old.html">>, 1)))]

\* what docopt can deliver: --deploy has a default, so flag_deploy is always set
OptionsCli ==
    [ flag_version       : BOOLEAN,
      flag_branch        : {<<>>, <<"dev">>, <<"dev", "master">>},
      flag_token         : {None, Some("tok")},
      flag_message       : {None, Some("docs")},
      flag_deploy        : {Some("gh-pages"), Some("pages")},
      flag_path          : {None, Some("docs")},
      flag_clobber_index : BOOLEAN,
      flag_target        : {None, Some("x86")} ]

EnvCli ==
    [ TRAVIS_BRANCH       : {None, Some("master"), Some("dev")},
      TRAVIS_PULL_REQUEST : {None, Some("false"), Some("17")},
      TRAVIS_REPO_SLUG    : {None, Some("o/r")},
      GH_TOKEN            : {None, Some("env")} ]

\* an eligible invocation: branch master, not a pull request
OptionsEligible ==
    [ flag_version       : {FALSE},
      flag_branch        : {<<>>},
      flag_token         : {None},
      flag_message       : {None},
      flag_deploy        : {Some("gh-pages")},
      flag_path          : {None, Some("docs")},
      flag_clobber_index : BOOLEAN,
      flag_target        : {None, Some("x86")} ]

EnvEligible ==
    [ TRAVIS_BRANCH       : {Some("master")},
      TRAVIS_PULL_REQUEST : {Some("false")},
      TRAVIS_REPO_SLUG    : {Some("o/r")},
      GH_TOKEN            : {Some("env")} ]

Invocation(startup, options, env, files) ==
    [startup |-> startup, options |-> options, env |-> env, files |-> files]

FailedStartups ==
    { Invocation(s, o, e, FilesFull) :
        s \in {"config_error", "bad_unicode", "usage_error", "help"},
        o \in {CHOOSE x \in OptionsEligible : TRUE},
        e \in {CHOOSE x \in EnvEligible : TRUE} }

CliInputs ==
    { Invocation("ok", o, e, FilesFull) : o \in OptionsCli, e \in EnvCli } \cup FailedStartups

EngineInputs ==
    { Invocation("ok", o, e, f) :
        o \in OptionsEligible, e \in EnvEligible,
        f \in {FilesFull, FilesEmptyDoc, FilesNoX86} }

\* two jobs with the sub-paths master (the branch name) and docs (--path)
RaceInputs ==
    { ins \in [{"a", "b"} -> {i \in EngineInputs : i.options.flag_target = None}] :
        /\ ins["a"].options.flag_path = None
        /\ ins["b"].options.flag_path = Some("docs")
        /\ ~ins["b"].options.flag_clobber_index }

StartState(ins, branches, others) ==
    /\ input = ins
    /\ pc = [p \in DOMAIN ins |-> "start"]
    /\ decision = [p \in DOMAIN ins |-> "none"]
    /\ origin = [p \in DOMAIN ins |-> None]
    /\ req = [p \in DOMAIN ins |-> None]
    /\ calls = [p \in DOMAIN ins |-> 0]
    /\ eng = [p \in DOMAIN ins |-> EngineIdle]
    /\ exit = [p \in DOMAIN ins |-> Running]
    /\ runs = [p \in DOMAIN ins |-> [started |-> 1, published |-> 0, quiet |-> FALSE]]
    /\ remote = branches
    /\ otherLeft = others

\* one invocation with any arguments and environment
Init ==
    \E ins \in [{"a"} -> CliInputs] :
        StartState(ins, [b \in {"gh-pages", "pages"} |-> BranchCurrent], CliOther)

\* one eligible invocation against a contended branch
InitEngine ==
    \E ins \in [{"a"} -> EngineInputs], r \in {BranchAbsent, BranchOld, BranchCurrent} :
        StartState(ins, [b \in {"gh-pages"} |-> r], MaxOther)

\* two eligible invocations, no other publisher
InitRace ==
    \E ins \in RaceInputs, r \in {BranchAbsent, BranchOld, BranchCurrent} :
        StartState(ins, [b \in {"gh-pages"} |-> r], 0)

\* one eligible invocation that is run again
InitTwice ==
    \E ins \in [{"a"} -> EngineInputs], r \in {BranchAbsent, BranchOld, BranchCurrent} :
        StartState(ins, [b \in {"gh-pages"} |-> r], CliOther)

(***************************************************************************)
(* Specifications                                                          *)
(***************************************************************************)

Next ==
    \/ \E p \in DOMAIN pc : Main(p)
    \/ \E p \in DOMAIN pc : Fetch(p)
    \/ \E p \in DOMAIN pc : FetchFault(p)
    \/ \E p \in DOMAIN pc : Rebuild(p)
    \/ \E p \in DOMAIN pc : Commit(p)
    \/ \E p \in DOMAIN pc : CommitSkip(p)
    \/ \E p \in DOMAIN pc : PushOK(p)
    \/ \E p \in DOMAIN pc : PushRejected(p)
    \/ \E p \in DOMAIN pc : PushFault(p)
    \/ \E p \in DOMAIN pc : Retry(p)
    \/ \E p \in DOMAIN pc : EngineReturn(p)
    \/ OtherPush

\* everything one invocation can do
Step(p) ==
    \/ Main(p)
    \/ Fetch(p) \/ FetchFault(p)
    \/ Rebuild(p)
    \/ Commit(p) \/ CommitSkip(p)
    \/ PushOK(p) \/ PushRejected(p) \/ PushFault(p)
    \/ Retry(p)
    \/ EngineReturn(p)

\* the same without the injected authentication, policy and network faults
StepNoFault(p) ==
    \/ Main(p)
    \/ Fetch(p)
    \/ Rebuild(p)
    \/ Commit(p) \/ CommitSkip(p)
    \/ PushOK(p) \/ PushRejected(p)
    \/ Retry(p)
    \/ EngineReturn(p)

\* one invocation with any arguments and environment
Spec == Init /\ [][Next]_vars

\* one eligible invocation against a contended branch
SpecEngine == InitEngine /\ [][Next]_vars

\* a process that can take a step takes one
FairSpecEngine == SpecEngine /\ WF_vars(Step("a"))

\* the race of spec.md section 8: interleaved fetches and pushes of two
\* invocations, no other publisher and no injected fault
NextRace ==
    \/ \E p \in DOMAIN pc : Main(p)
    \/ \E p \in DOMAIN pc : Fetch(p)
    \/ \E p \in DOMAIN pc : Rebuild(p)
    \/ \E p \in DOMAIN pc : Commit(p)
    \/ \E p \in DOMAIN pc : CommitSkip(p)
    \/ \E p \in DOMAIN pc : PushOK(p)
    \/ \E p \in DOMAIN pc : PushRejected(p)
    \/ \E p \in DOMAIN pc : Retry(p)
    \/ \E p \in DOMAIN pc : EngineReturn(p)

SpecRace == InitRace /\ [][NextRace]_vars

FairSpecRace == SpecRace /\ WF_vars(StepNoFault("a")) /\ WF_vars(StepNoFault("b"))

\* one eligible invocation and its re-runs
NextTwice ==
    \/ Next
    \/ \E p \in DOMAIN pc : Rerun(p)

SpecTwice == InitTwice /\ [][NextTwice]_vars

(***************************************************************************)
(* Properties: the trigger policy and the process's exit (execute, main)   *)
(***************************************************************************)

\* the invocation got past docopt and is not --version
Evaluated(p) ==
    pc[p] # "start" /\ input[p].startup = "ok" /\ ~input[p].options.flag_version

Present(v) == v # None

\* the allowed branch set as the usage text states it
AllowedSet(p) ==
    LET given == input[p].options.flag_branch
    IN  IF given = <<>> THEN {"master"} ELSE {given[i] : i \in 1..Len(given)}

OnAllowedBranch(p) ==
    /\ Present(input[p].env.TRAVIS_BRANCH)
    /\ input[p].env.TRAVIS_BRANCH[1] \in AllowedSet(p)

OnOtherBranch(p) ==
    /\ Present(input[p].env.TRAVIS_BRANCH)
    /\ input[p].env.TRAVIS_BRANCH[1] \notin AllowedSet(p)

PullRequestBuild(p) ==
    /\ Present(input[p].env.TRAVIS_PULL_REQUEST)
    /\ input[p].env.TRAVIS_PULL_REQUEST[1] # "false"

PushBuild(p) == input[p].env.TRAVIS_PULL_REQUEST = Some("false")

Skipped(p) == decision[p] \in {"SkipNotAllowedBranch", "SkipIsPullRequest"}

ExitedWith(p, code) == exit[p] = [status |-> "exited", code |-> code]

Faulted(p) ==
    pc[p] = "exited" /\ (exit[p].status = "panicked" \/ exit[p].code # 0)

\* C6 as stated: every pull-request build is skipped with reason IsPullRequest,
\* whatever the current branch, also when the branch is not in the allowed set.
C6_PullRequestAlwaysSkipsAsPR ==
    \A p \in DOMAIN pc :
        (Evaluated(p) /\ Present(input[p].env.TRAVIS_BRANCH) /\ PullRequestBuild(p))
            => decision[p] = "SkipIsPullRequest"

\* C6 amended: every pull-request build on an allowed branch is skipped with
\* reason IsPullRequest and exits 0 (on a branch outside the allowed set the
\* branch gate answers first, with NotAllowedBranch).
C6_PullRequestOnAllowedBranchSkips ==
    \A p \in DOMAIN pc :
        (Evaluated(p) /\ OnAllowedBranch(p) /\ PullRequestBuild(p))
            => decision[p] = "SkipIsPullRequest" /\ ExitedWith(p, 0)

C6_Witness ==
    \E p \in DOMAIN pc :
        /\ Evaluated(p) /\ OnAllowedBranch(p)
        /\ input[p].env.TRAVIS_PULL_REQUEST = Some("17")
        /\ decision[p] = "SkipIsPullRequest"

\* C7: a current branch outside the allowed set ({"master"} without --branch,
\* the given names otherwise) is skipped with reason NotAllowedBranch; a branch
\* in the set that is not a pull-request build proceeds.
C7_BranchGate ==
    \A p \in DOMAIN pc :
        /\ (Evaluated(p) /\ OnOtherBranch(p)) => decision[p] = "SkipNotAllowedBranch"
        /\ (Evaluated(p) /\ OnAllowedBranch(p) /\ PushBuild(p)) => decision[p] = "Proceed"

C7_Witness ==
    \E p \in DOMAIN pc :
        /\ Evaluated(p) /\ OnAllowedBranch(p) /\ PushBuild(p)
        /\ input[p].options.flag_branch = <<>>
        /\ decision[p] = "Proceed"

\* C8: when the policy skips (branch not allowed, or a pull request) the process
\* exits with success, doc_upload is never called and no remote URL is built;
\* doc_upload is called only once the policy has answered Proceed, at most once.
C8_SkipShortCircuits ==
    \A p \in DOMAIN pc :
        /\ (Evaluated(p) /\ (OnOtherBranch(p) \/ (OnAllowedBranch(p) /\ PullRequestBuild(p))))
               => /\ Skipped(p) /\ ExitedWith(p, 0)
                  /\ calls[p] = 0 /\ eng[p].state = "Idle"
                  /\ origin[p] = None /\ req[p] = None
        /\ calls[p] <= 1
        /\ (calls[p] = 1 \/ eng[p].state # "Idle")
               => decision[p] = "Proceed" /\ OnAllowedBranch(p) /\ PushBuild(p)

C8_Witness ==
    \E p \in DOMAIN pc :
        /\ Evaluated(p) /\ OnAllowedBranch(p) /\ PullRequestBuild(p)
        /\ Present(input[p].env.TRAVIS_REPO_SLUG)
        /\ pc[p] = "exited" /\ calls[p] = 0

AnyVariableAbsent(p) ==
    \/ ~Present(input[p].env.TRAVIS_BRANCH)
    \/ ~Present(input[p].env.TRAVIS_PULL_REQUEST)
    \/ ~Present(input[p].env.TRAVIS_REPO_SLUG)

\* C9 as stated: with the branch, pull-request or slug variable absent, the
\* process ends in a fault and doc_upload is never called, whatever the other
\* variables and flags are.
C9_AbsentVariableAlwaysFaults ==
    \A p \in DOMAIN pc :
        (Evaluated(p) /\ pc[p] = "exited" /\ AnyVariableAbsent(p))
            => Faulted(p) /\ calls[p] = 0

\* a variable execute reads before it returns: the branch always, the
\* pull-request flag on an allowed branch, the slug when the policy proceeds
ReadAbsent(p) ==
    \/ ~Present(input[p].env.TRAVIS_BRANCH)
    \/ OnAllowedBranch(p) /\ ~Present(input[p].env.TRAVIS_PULL_REQUEST)
    \/ OnAllowedBranch(p) /\ PushBuild(p) /\ ~Present(input[p].env.TRAVIS_REPO_SLUG)

\* C9 amended: an absent variable is a fault (a panic) exactly when execute
\* reaches its read; when the policy skips before the read, the process exits 0.
\* Either way doc_upload is never called.
C9_AbsentVariableFaultsWhenRead ==
    \A p \in DOMAIN pc :
        (Evaluated(p) /\ AnyVariableAbsent(p))
            => /\ calls[p] = 0 /\ eng[p].state = "Idle"
               /\ ReadAbsent(p) => exit[p].status = "panicked" /\ ~Skipped(p)
               /\ ~ReadAbsent(p) => Skipped(p) /\ ExitedWith(p, 0)

C9_Witness ==
    \E p \in DOMAIN pc :
        /\ Evaluated(p) /\ OnAllowedBranch(p) /\ PushBuild(p)
        /\ ~Present(input[p].env.TRAVIS_REPO_SLUG)
        /\ exit[p].status = "panicked"

EngineFailed(p) == pc[p] = "exited" /\ eng[p].state = "Failed"

EngineDone(p) == pc[p] = "exited" /\ eng[p].state = "Done"

\* C10 as stated: exit code 0 when the engine succeeds or the policy skips;
\* non-zero whenever the engine fails, whatever code its error carries, and
\* when command-line parsing fails fatally.
C10_FailureExitsNonZero ==
    \A p \in DOMAIN pc :
        /\ (EngineDone(p) \/ (pc[p] = "exited" /\ Skipped(p))) => ExitedWith(p, 0)
        /\ EngineFailed(p) => exit[p].status = "exited" /\ exit[p].code # 0
        /\ (pc[p] = "exited" /\ input[p].startup = "usage_error")
               => exit[p].status = "exited" /\ exit[p].code # 0

\* C10 amended: exit code 0 when the engine succeeds or the policy skips; when
\* the engine fails, the exit code is the code its error carries (non-zero
\* exactly when that code is); a fatal parse error exits with 1.
C10_ExitCodeIsEngineCode ==
    \A p \in DOMAIN pc :
        /\ (EngineDone(p) \/ (pc[p] = "exited" /\ Skipped(p))) => ExitedWith(p, 0)
        /\ EngineFailed(p) => ExitedWith(p, eng[p].err[1].code)
        /\ (pc[p] = "exited" /\ input[p].startup = "usage_error") => ExitedWith(p, 1)

C10_Witness ==
    \E p \in DOMAIN pc :
        /\ EngineFailed(p) /\ eng[p].err[1].code = 128 /\ ExitedWith(p, 128)

(***************************************************************************)
(* Properties: the publish engine                                          *)
(***************************************************************************)

\* the step in which invocation p's publish succeeds: its push is accepted,
\* or it finds nothing to commit
Publishes(p) == eng[p].state # "Done" /\ eng'[p].state = "Done"

\* the sub-path and local directory the command line asks for
AskedSubPath(p) ==
    IF input[p].options.flag_path # None
        THEN <<input[p].options.flag_path[1]>>
        ELSE <<input[p].env.TRAVIS_BRANCH[1]>>

AskedDocs(p) ==
    LET dir == IF input[p].options.flag_target # None
                   THEN <<"target", input[p].options.flag_target[1], "doc">>
                   ELSE <<"target", "doc">>
    IN  input[p].files[dir]

\* C1: a publish leaves every file of the target branch that is neither under
\* the sub-path nor (with --clobber-index) the root index.html in place with
\* its content; "before" is the tip the accepted push was built on, so this
\* covers the attempts made after a retry.
C1_NonDestructive ==
    [][ \A p \in DOMAIN pc :
            Publishes(p) =>
                \A P \in DOMAIN remote[Target(p)].tree :
                    ( /\ ~IsPrefix(SubPathOf(req[p][1]), P)
                      /\ ~(P = IndexHtml /\ input[p].options.flag_clobber_index) )
                        => /\ P \in DOMAIN remote'[Target(p)].tree
                           /\ remote'[Target(p)].tree[P] = remote[Target(p)].tree[P] ]_vars

C1_Witness ==
    \E p \in DOMAIN pc :
        /\ eng[p].state = "Done" /\ eng[p].last = "accepted" /\ eng[p].retries >= 2
        /\ ~input[p].options.flag_clobber_index
        /\ remote[Target(p)].tip = eng[p].baseTip + 1
        /\ IndexHtml \in DOMAIN remote[Target(p)].tree
        /\ Under(eng[p].baseTree, SubPathOf(req[p][1])) # {}

\* the tree of the commit a publish ends on: the commit it pushed, or, when it
\* found nothing to commit, the tip it had fetched
PublishedTree(p) ==
    IF eng'[p].last = "accepted" /\ eng[p].state = "Pushing"
        THEN remote'[Target(p)].tree
        ELSE eng[p].baseTree

\* C2: in the tree a successful publish ends on, the files under the sub-path
\* are exactly those of the local documentation directory: nothing of an
\* earlier publish is left, and an empty directory leaves an empty subtree.
C2_ReplacementComplete ==
    [][ \A p \in DOMAIN pc :
            Publishes(p) =>
                Subtree(PublishedTree(p), SubPathOf(req[p][1])) = AskedDocs(p) ]_vars

C2_Witness ==
    \E p \in DOMAIN pc :
        /\ eng[p].state = "Done" /\ eng[p].last = "accepted"
        /\ remote[Target(p)].tip = eng[p].baseTip + 1
        /\ AskedDocs(p) = EmptyTree
        /\ Under(eng[p].baseTree, SubPathOf(req[p][1])) # {}
        /\ Under(remote[Target(p)].tree, SubPathOf(req[p][1])) = {}

AllPublished ==
    \A p \in DOMAIN pc :
        /\ pc[p] = "exited" /\ eng[p].state = "Done" /\ ExitedWith(p, 0)
        /\ Subtree(remote["gh-pages"].tree, AskedSubPath(p)) = AskedDocs(p)

\* C3: two publishers with the sub-paths master and docs, started on the same
\* tip and interleaved in any order, both end in success, and the branch then
\* holds both subtrees.
C3_RaceBothSucceed == <>[]AllPublished

C3_Witness ==
    /\ AllPublished
    /\ \E p \in DOMAIN pc : eng[p].retries = 1 /\ eng[p].last = "accepted"
    /\ \A p \in DOMAIN pc : AskedDocs(p) # EmptyTree

Faults == {"AuthFault", "PolicyRejected", "TransportFault"}

RetryDiscipline ==
    \A p \in DOMAIN pc :
        \* Fetching is entered from Idle (the call) or from Retrying
        /\ (eng[p].state # "Fetching" /\ eng'[p].state = "Fetching")
               => \/ eng[p].state = "Idle"
                  \/ eng[p].state = "Retrying" /\ eng[p].last = "non-fast-forward"
        \* Retrying is entered only by a push rejected as non-fast-forward
        /\ (eng[p].state # "Retrying" /\ eng'[p].state = "Retrying")
               => /\ eng[p].state = "Pushing"
                  /\ remote[Target(p)].tip # eng[p].baseTip
                  /\ eng'[p].retries = eng[p].retries + 1
        \* a rejection past the bound fails
        /\ ( /\ eng[p].state = "Pushing" /\ eng'[p].state # "Pushing"
             /\ remote[Target(p)].tip # eng[p].baseTip
             /\ eng[p].retries = MaxRetries )
               => eng'[p].state = "Failed"
        \* a fault of the fetch or the push fails at once
        /\ (eng'[p] # eng[p] /\ eng'[p].err # None /\ eng'[p].err[1].kind \in Faults)
               => eng'[p].state = "Failed" /\ eng'[p].retries = eng[p].retries
        \* Done and Failed are final
        /\ eng[p].state \in {"Done", "Failed"} => eng'[p] = eng[p]

\* C4: Fetching is re-entered only right after a non-fast-forward rejection,
\* never more than MaxRetries times; a rejection past the bound, an
\* authentication failure, a policy rejection or a network failure ends in
\* Failed without a retry; every invocation of the engine ends in Done or Failed.
C4_BoundedRetry ==
    /\ [][RetryDiscipline]_vars
    /\ [](\A p \in DOMAIN pc : eng[p].retries <= MaxRetries)
    /\ \A p \in {"a"} : (eng[p].state = "Fetching") ~> (eng[p].state \in {"Done", "Failed"})

C4_Witness ==
    \E p \in DOMAIN pc :
        /\ eng[p].state = "Failed" /\ eng[p].retries = MaxRetries
        /\ eng[p].err[1].kind = "RaceConflict"

\* C5: a second publish of the same arguments and files, with no other
\* publisher's push since the first, leaves the branch's tree as the first left
\* it, whether it pushes a new commit or none.
C5_Idempotent ==
    [][ \A p \in DOMAIN pc :
            (Publishes(p) /\ runs[p].published >= 1 /\ runs[p].quiet)
                => remote'[Target(p)].tree = remote[Target(p)].tree ]_vars

C5_Witness ==
    \E p \in DOMAIN pc :
        /\ runs[p].started = 2 /\ runs[p].published = 2 /\ runs[p].quiet
        /\ eng[p].state = "Done" /\ eng[p].last = "accepted"
        /\ remote[Target(p)].tip = eng[p].baseTip + 1
        /\ AskedDocs(p) # EmptyTree

====
